---- MODULE Spec2Model ----
(***************************************************************************)
(* PiSight relay backend: the per-connection session coordinator.          *)
(*                                                                         *)
(* The repository holds several revisions of the Socket.IO server.  Three  *)
(* of them are modelled; `variant` says which one the process runs:        *)
(*   "session"  src/unnamed/part_002  sessionData + streaming transcriber  *)
(*   "full"     src/unnamed/part_001  sessionData + audio_full (batch STT) *)
(*   "legacy"   src/src/server.js     module-level img, no busy flag       *)
(* part_000, part_003 and part_004 are earlier drafts of server.js with    *)
(* the same handlers and mock collaborators; they are not modelled apart.  *)
(* The upstream collaborators (AssemblyAI, AiProcessing, Gemini TTS) are   *)
(* the environment: each awaited call resolves or rejects.                 *)
(***************************************************************************)
EXTENDS Integers, Sequences, FiniteSets, Bags, TLC

Sessions == {"s1", "s2"}
Variants == {"session", "full", "legacy"}
\* The clients.  Client s1 streams audio, so its connection sees audio_start and
\* turns, and it uploads an image in chunks (an opening chunk, then the terminal
\* one); client s2 sends text and one-chunk images only.  The bytes differ, so
\* that an image shows whose chunks it holds and in which order.
StreamsAudio(s) == s = "s1"
FirstPayload == <<1>>
LastPayload(s) == IF s = "s1" THEN <<2>> ELSE <<3>>
Texts == {"hi"}
\* The transcripts a finalized turn of the streaming session carries.
Transcripts == {"hi", "yo"}
TtsAudio == <<1>>
\* The bytes of an audio_chunk payload.
AudioPayload == <<7>>

\* Bounds of the model.
MaxPending == 1
MaxInflight == 2

VARIABLES
  variant,       \* which revision of the server runs
  sock,          \* client side of the socket: "idle" | "open" | "closed"
  phase,         \* io.on("connection") callback and disconnect handler:
                 \* "none" | "connecting" | "ready" | "aborted" | "closing" | "done"
  transcriber,   \* streaming handle: "null" | "created" | "connected" | "failed" | "closed"
  image,         \* sessionData.image
  img,           \* module-level `let img` of server.js
  imageChunks,   \* sessionData.imageChunks / `let imageChunks`
  isProcessing,  \* sessionData.isProcessing
  inflight,      \* bag of suspended request handlers (past the busy check, before cleanup)
  closeAttempts, \* calls of transcriber.close()
  clearSeen,     \* history: clear_image received, no later upload or dispatcher call
  received,      \* history: the chunk payloads received since the last terminal chunk,
                 \* joined in arrival order
  event,         \* the handler or continuation that ran last
  emitted,       \* socket.emit calls of that step
  called,        \* AiProcessing calls of that step
  written        \* writes of that step to the upstream audio streams

vars == <<variant, sock, phase, transcriber, image, img, imageChunks, isProcessing,
          inflight, closeAttempts, clearSeen, received, event, emitted, called, written>>

----------------------------------------------------------------------------
\* Values

Null == [isNull |-> TRUE, bytes |-> <<>>]
Buf(b) == [isNull |-> FALSE, bytes |-> b]

Ev(s, name, type, size) == [to |-> s, ev |-> name, type |-> type, size |-> size]
ErrorEv(s, type) == Ev(s, "error", type, 0)
Call(s, im, text) == [s |-> s, img |-> im, text |-> text]
Event(s, name) == [s |-> s, name |-> name, trigger |-> "", chunk |-> <<>>, text |-> ""]
\* A text_message, or a turn or a finished transcription, and the text it carries.
TextEvent(s, name, trigger, text) ==
  [s |-> s, name |-> name, trigger |-> trigger, chunk |-> <<>>, text |-> text]
\* An awaited call of a request settled: name is "ok_<stage>" or "fail_<stage>".
ReqEvent(s, name, trigger) == TextEvent(s, name, trigger, "")
\* An image_chunk event and the bytes of its payload.
ChunkEvent(s, name, chunk) ==
  [s |-> s, name |-> name, trigger |-> "", chunk |-> chunk, text |-> ""]

BufferFrom_Empty(chunk) == <<>>

\* Buffer.from(data.chunk): copies the bytes of a binary payload.
BufferFrom(chunk) == [i \in 1..Len(chunk) |-> chunk[i] % 256]

\* Buffer.concat(list): the buffers of the list joined in list order.
RECURSIVE BufferConcat(_)
BufferConcat(list) ==
  IF list = <<>> THEN <<>> ELSE Head(list) \o BufferConcat(Tail(list))

SessionImage_Global(s) == img

\* The image the dispatcher of session s reads.
SessionImage(s) == IF variant = "legacy" THEN img ELSE image[s]

HasSession == variant \in {"session", "full"}
HasTranscriber == variant \in {"session", "legacy"}

RECURSIVE SumInflight(_)
SumInflight(S) ==
  IF S = {} THEN 0
  ELSE LET s == CHOOSE x \in S : TRUE IN BagCardinality(inflight[s]) + SumInflight(S \ {s})
TotalInflight == SumInflight(Sessions)

Listening_Early(s) == sock[s] = "open" /\ phase[s] \in {"connecting", "ready"}

\* Socket handlers run only for a connected client whose handlers are registered.
Listening(s) == sock[s] = "open" /\ phase[s] = "ready"

----------------------------------------------------------------------------
Init ==
  /\ variant \in Variants
  /\ sock = [s \in Sessions |-> "idle"]
  /\ phase = [s \in Sessions |-> "none"]
  /\ transcriber = [s \in Sessions |-> "null"]
  /\ image = [s \in Sessions |-> Null]
  /\ img = Null
  /\ imageChunks = [s \in Sessions |-> <<>>]
  /\ isProcessing = [s \in Sessions |-> FALSE]
  /\ inflight = [s \in Sessions |-> EmptyBag]
  /\ closeAttempts = [s \in Sessions |-> 0]
  /\ clearSeen = [s \in Sessions |-> FALSE]
  /\ received = [s \in Sessions |-> <<>>]
  /\ event = Event("s1", "init")
  /\ emitted = <<>>
  /\ called = <<>>
  /\ written = <<>>

----------------------------------------------------------------------------
\* io.on("connection"): up to the first await.
\* created = FALSE: assemblyClient.streaming.transcriber(...) throws.
Connect(s, created) ==
  /\ sock[s] = "idle"
  /\ sock' = [sock EXCEPT ![s] = "open"]
  /\ written' = <<>>
  /\ event' = Event(s, "connection")
  /\ called' = <<>>
  /\ IF variant = "full"
       THEN /\ created
            /\ phase' = [phase EXCEPT ![s] = "ready"]
            /\ emitted' = <<>>
            /\ UNCHANGED transcriber
       ELSE IF created
         THEN /\ transcriber' = [transcriber EXCEPT ![s] = "created"]
              /\ phase' = [phase EXCEPT ![s] = "connecting"]
              /\ emitted' = <<>>
         ELSE IF variant = "session"
           THEN \* caught: handlers are registered right away
                /\ phase' = [phase EXCEPT ![s] = "ready"]
                /\ emitted' = <<ErrorEv(s, "initialization")>>
                /\ UNCHANGED transcriber
           ELSE \* server.js: the async callback rejects, nothing is registered
                /\ phase' = [phase EXCEPT ![s] = "aborted"]
                /\ emitted' = <<>>
                /\ UNCHANGED transcriber
  /\ UNCHANGED <<variant, image, img, imageChunks, isProcessing, inflight,
                 closeAttempts, clearSeen, received>>

\* await transcriber.connect() settles; the socket handlers are registered after it.
ConnectDone(s, ok) ==
  /\ phase[s] = "connecting"
  /\ written' = <<>>
  /\ event' = Event(s, "connect_done")
  /\ called' = <<>>
  /\ IF ok
       THEN /\ transcriber' = [transcriber EXCEPT ![s] = "connected"]
            /\ phase' = [phase EXCEPT ![s] = "ready"]
            /\ emitted' = IF variant = "session" THEN <<Ev(s, "stt_ready", "", 0)>> ELSE <<>>
       ELSE /\ transcriber' = [transcriber EXCEPT ![s] = "failed"]
            /\ IF variant = "session"
                 THEN /\ phase' = [phase EXCEPT ![s] = "ready"]
                      /\ emitted' = <<ErrorEv(s, "initialization")>>
                 ELSE /\ phase' = [phase EXCEPT ![s] = "aborted"]
                      /\ emitted' = <<>>
  /\ UNCHANGED <<variant, sock, image, img, imageChunks, isProcessing, inflight,
                 closeAttempts, clearSeen, received>>

\* The client events whose listeners are registered after `await connect()`;
\* audio_chunk and disconnect have actions of their own.
LateListeners == {"image_chunk", "text_message", "clear_image"}

\* A client event arrives while `await connect()` is pending: the socket has no
\* listener for it yet, and an event without a listener is discarded.
Unheard(s, name) ==
  /\ HasTranscriber
  /\ sock[s] = "open"
  /\ phase[s] = "connecting"
  /\ written' = <<>>
  /\ event' = Event(s, "unheard_" \o name)
  /\ emitted' = <<>>
  /\ called' = <<>>
  /\ UNCHANGED <<variant, sock, phase, transcriber, image, img, imageChunks, isProcessing,
                 inflight, closeAttempts, clearSeen, received>>

----------------------------------------------------------------------------
\* Chunk reassembly

Chunk(hasChunk, chunk, isLast) == [hasChunk |-> hasChunk, chunk |-> chunk, isLast |-> isLast]
\* The image_chunk payloads of client s; hasChunk = FALSE is a payload without
\* a usable chunk field.
ChunkEvents(s) ==
  {Chunk(TRUE, LastPayload(s), TRUE), Chunk(FALSE, <<>>, TRUE)}
    \cup (IF s = "s1" THEN {Chunk(TRUE, FirstPayload, FALSE), Chunk(FALSE, <<>>, FALSE)} ELSE {})

Push_Front(chunks, buffer) == <<buffer>> \o chunks

\* imageChunks.push(bufferChunk)
Push(chunks, buffer) == Append(chunks, buffer)

ChunksAfterFold_Kept(pushed) == pushed

\* sessionData.imageChunks = [] after the image was assembled
ChunksAfterFold(pushed) == <<>>

\* socket.on("image_chunk")
ImageChunk(s, data) ==
  /\ Listening(s)
  /\ data.isLast \/ ~data.hasChunk \/ Len(imageChunks[s]) < MaxPending
  /\ written' = <<>>
  /\ event' = ChunkEvent(s, IF ~data.hasChunk THEN "image_bad"
                             ELSE IF data.isLast THEN "image_last" ELSE "image_chunk",
                          data.chunk)
  /\ received' = IF ~data.hasChunk THEN received
                 ELSE [received EXCEPT ![s] = IF data.isLast THEN <<>> ELSE @ \o data.chunk]
  /\ called' = <<>>
  /\ IF ~data.hasChunk
       THEN \* Buffer.from(undefined) throws before the push
            /\ emitted' = IF HasSession THEN <<ErrorEv(s, "image_upload")>> ELSE <<>>
            /\ UNCHANGED <<image, img, imageChunks, clearSeen>>
       ELSE LET pushed == Push(imageChunks[s], BufferFrom(data.chunk))
                full == BufferConcat(pushed)
            IN IF ~data.isLast
                 THEN /\ imageChunks' = [imageChunks EXCEPT ![s] = pushed]
                      /\ emitted' = <<>>
                      /\ UNCHANGED <<image, img, clearSeen>>
                 ELSE /\ imageChunks' = [imageChunks EXCEPT ![s] = ChunksAfterFold(pushed)]
                      /\ IF HasSession
                           THEN /\ image' = [image EXCEPT ![s] = Buf(full)]
                                /\ emitted' = <<Ev(s, "image_received", "", Len(full))>>
                                /\ clearSeen' = [clearSeen EXCEPT ![s] = FALSE]
                                /\ UNCHANGED img
                           ELSE /\ img' = Buf(full)
                                /\ emitted' = <<>>
                                /\ clearSeen' = [t \in Sessions |-> FALSE]
                                /\ UNCHANGED image
  /\ UNCHANGED <<variant, sock, phase, transcriber, isProcessing, inflight, closeAttempts>>

ChunksAfterClear_Discarded(s) == <<>>

\* clear_image does not touch sessionData.imageChunks.
ChunksAfterClear(s) == imageChunks[s]

\* socket.on("clear_image"); server.js registers no listener for it.
ClearImage(s) ==
  /\ Listening(s)
  /\ imageChunks' = [imageChunks EXCEPT ![s] = ChunksAfterClear(s)]
  /\ written' = <<>>
  /\ event' = Event(s, "clear_image")
  /\ called' = <<>>
  /\ clearSeen' = [clearSeen EXCEPT ![s] = TRUE]
  /\ IF HasSession
       THEN /\ image' = [image EXCEPT ![s] = Null]
            /\ emitted' = <<Ev(s, "image_cleared", "", 0)>>
       ELSE /\ emitted' = <<>>
            /\ UNCHANGED image
  /\ UNCHANGED <<variant, sock, phase, transcriber, img, isProcessing,
                 inflight, closeAttempts, received>>

----------------------------------------------------------------------------
\* Request dispatcher

Req(trigger, stage) == [trigger |-> trigger, stage |-> stage]
Requests ==
  {Req(g, st) : g \in {"text", "turn"}, st \in {"ai", "tts"}}
    \cup {Req("audio", st) : st \in {"upload", "create", "wait", "ai", "tts"}}

BusyGuard_Unchecked(s) == FALSE

\* The guard at the top of text_message and audio_full.
BusyGuard(s) == HasSession /\ isProcessing[s]

TurnSkips_BusyOnly(s, transcript) == variant = "session" /\ isProcessing[s]

\* The guard at the top of transcriber.on("turn").
TurnSkips(s, transcript) ==
  \/ transcript = ""
  \/ variant = "session" /\ isProcessing[s]

FlagWhenAccepted_Unset(s) == isProcessing[s]

\* sessionData.isProcessing = true, the first statement after the busy check
FlagWhenAccepted(s) == TRUE

\* Accepting a request: set the flag, call AiProcessing(image, text), suspend.
Accept(s, trigger, text) ==
  /\ TotalInflight < MaxInflight
  /\ isProcessing' = IF HasSession THEN [isProcessing EXCEPT ![s] = FlagWhenAccepted(s)]
                                    ELSE isProcessing
  /\ called' = <<Call(s, SessionImage(s), text)>>
  /\ inflight' = [inflight EXCEPT ![s] = @ (+) SetToBag({Req(trigger, "ai")})]
  /\ clearSeen' = [clearSeen EXCEPT ![s] = FALSE]
  /\ emitted' = <<>>

\* socket.on("text_message")
TextMessage(s, message) ==
  /\ Listening(s)
  /\ written' = <<>>
  /\ event' = TextEvent(s, "text_message", "", message)
  /\ IF BusyGuard(s)
       THEN /\ emitted' = <<ErrorEv(s, "busy")>>
            /\ called' = <<>>
            /\ UNCHANGED <<isProcessing, inflight, clearSeen>>
       ELSE Accept(s, "text", message)
  /\ UNCHANGED <<variant, sock, phase, transcriber, image, img, imageChunks, closeAttempts,
                 received>>

\* transcriber.on("turn"): the upstream session delivers a finalized turn.
Turn(s, transcript) ==
  /\ HasTranscriber
  /\ StreamsAudio(s)
  /\ transcriber[s] = "connected"
  /\ Listening(s) \/ phase[s] = "closing"
  /\ written' = <<>>
  /\ event' = TextEvent(s, IF transcript = "" THEN "turn_empty" ELSE "turn", "", transcript)
  /\ IF TurnSkips(s, transcript)
       THEN /\ emitted' = <<>>
            /\ called' = <<>>
            /\ UNCHANGED <<isProcessing, inflight, clearSeen>>
       ELSE Accept(s, "turn", transcript)
  /\ UNCHANGED <<variant, sock, phase, transcriber, image, img, imageChunks, closeAttempts,
                 received>>

\* socket.on("audio_full"): the handler up to `await assemblyClient.upload`.
AudioFull(s) ==
  /\ variant = "full"
  /\ Listening(s)
  /\ written' = <<>>
  /\ event' = Event(s, "audio_full")
  /\ called' = <<>>
  /\ IF BusyGuard(s)
       THEN /\ emitted' = <<ErrorEv(s, "busy")>>
            /\ UNCHANGED <<isProcessing, inflight>>
       ELSE /\ TotalInflight < MaxInflight
            /\ isProcessing' = [isProcessing EXCEPT ![s] = FlagWhenAccepted(s)]
            /\ inflight' = [inflight EXCEPT ![s] = @ (+) SetToBag({Req("audio", "upload")})]
            /\ emitted' = <<>>
  /\ UNCHANGED <<variant, sock, phase, transcriber, image, img, imageChunks,
                 closeAttempts, clearSeen, received>>

SockAfterSttError_Closed(s) == "closed"

\* The "error" listener of the transcriber does not touch the socket.
SockAfterSttError(s) == sock[s]

\* transcriber.on("error"): the upstream session reports an error.  part_002
\* tells the client, server.js logs it.
SttError(s) ==
  /\ HasTranscriber
  /\ sock[s] = "open"
  /\ transcriber[s] \in {"created", "connected", "failed"}
  /\ written' = <<>>
  /\ event' = Event(s, "stt_error")
  /\ sock' = [sock EXCEPT ![s] = SockAfterSttError(s)]
  /\ emitted' = IF variant = "session" THEN <<ErrorEv(s, "stt")>> ELSE <<>>
  /\ called' = <<>>
  /\ UNCHANGED <<variant, phase, transcriber, image, img, imageChunks, isProcessing,
                 inflight, closeAttempts, clearSeen, received>>

\* A write to the upstream stream of session s.
Write(s, bytes) == [to |-> s, bytes |-> bytes]

\* sessionData.transcriber of the connection whose listener runs
StreamOf(s) == s

\* socket.on("audio_chunk").  The listener exists once the connection callback has
\* passed `await connect()`; an event that finds no listener is discarded.  The
\* write reaches the upstream session only if that session is open: part_002
\* skips the write without a transcriber and logs a write that throws.
AudioChunk(s, chunk) ==
  /\ HasTranscriber
  /\ StreamsAudio(s)
  /\ sock[s] = "open"
  /\ event' = ChunkEvent(s, "audio_chunk", chunk)
  /\ written' = IF phase[s] = "ready" /\ transcriber[s] = "connected"
                  THEN <<Write(StreamOf(s), BufferFrom(chunk))>>
                  ELSE <<>>
  /\ emitted' = <<>>
  /\ called' = <<>>
  /\ UNCHANGED <<variant, sock, phase, transcriber, image, img, imageChunks, isProcessing,
                 inflight, closeAttempts, clearSeen, received>>

\* socket.on("audio_start")
AudioStart(s) ==
  /\ variant = "session"
  /\ StreamsAudio(s)
  /\ Listening(s)
  /\ written' = <<>>
  /\ event' = Event(s, "audio_start")
  /\ isProcessing' = [isProcessing EXCEPT ![s] = FALSE]
  /\ emitted' = <<>>
  /\ called' = <<>>
  /\ UNCHANGED <<variant, sock, phase, transcriber, image, img, imageChunks, inflight,
                 closeAttempts, clearSeen, received>>

\* type of the error event the catch block of a handler emits
ErrorType(trigger) ==
  CASE trigger = "text" -> "text_processing"
    [] trigger = "turn" -> "ai_processing"
    [] trigger = "audio" -> "full_audio"

\* the events a handler emits once textToAudio has returned `audio`
ResponseEvents(s, trigger, audio) ==
  IF HasSession
    THEN <<Ev(s, "ai_response", "", Len(audio))>>
    ELSE IF trigger = "text"
      THEN <<Ev(s, "ai_text_response", "", 0), Ev(s, "ai_response_audio", "", Len(audio))>>
      ELSE <<Ev(s, "ai_response_audio", "", Len(audio))>>

CatchEvents_Silent(s, trigger) == <<>>

\* the events the catch block of a handler emits
CatchEvents(s, trigger) ==
  IF HasSession THEN <<ErrorEv(s, ErrorType(trigger))>> ELSE <<>>

\* textToAudio of server.js catches every failure and returns Buffer.from("").
TtsSwallows == variant = "legacy"

FlagAfterCleanup_SuccessOnly(s, ok) ==
  IF HasSession /\ ok THEN FALSE ELSE isProcessing[s]

\* isProcessing after the handler has left its try statement (finally block)
FlagAfterCleanup(s, ok) == IF HasSession THEN FALSE ELSE isProcessing[s]

\* The handler leaves its try statement: emit, clean up, drop the request.
Finish(s, r, ok, events) ==
  /\ emitted' = events
  /\ called' = <<>>
  /\ inflight' = [inflight EXCEPT ![s] = @ (-) SetToBag({r})]
  /\ isProcessing' = [isProcessing EXCEPT ![s] = FlagAfterCleanup(s, ok)]
  /\ UNCHANGED clearSeen

\* The request moves on to its next awaited call.
Advance(s, r, stage) ==
  /\ inflight' = [inflight EXCEPT
       ![s] = (@ (-) SetToBag({r})) (+) SetToBag({Req(r.trigger, stage)})]
  /\ emitted' = <<>>
  /\ UNCHANGED isProcessing

\* An awaited upstream call of a request r of session s resolves (ok) or rejects.
Settle(s, r, ok, transcript) ==
  /\ BagIn(r, inflight[s])
  /\ written' = <<>>
  /\ event' = TextEvent(s, (IF ok THEN "ok_" ELSE "fail_") \o r.stage, r.trigger, transcript)
  /\ CASE r.stage = "upload" ->
            /\ transcript = ""
            /\ IF ok THEN Advance(s, r, "create") /\ called' = <<>> /\ UNCHANGED clearSeen
                     ELSE Finish(s, r, FALSE, CatchEvents(s, r.trigger))
       [] r.stage = "create" ->
            /\ transcript = ""
            /\ IF ok THEN Advance(s, r, "wait") /\ called' = <<>> /\ UNCHANGED clearSeen
                     ELSE Finish(s, r, FALSE, CatchEvents(s, r.trigger))
       [] r.stage = "wait" ->
            IF ok
              THEN /\ Advance(s, r, "ai")
                   /\ called' = <<Call(s, SessionImage(s), transcript)>>
                   /\ clearSeen' = [clearSeen EXCEPT ![s] = FALSE]
              ELSE /\ transcript = ""
                   /\ Finish(s, r, FALSE, CatchEvents(s, r.trigger))
       [] r.stage = "ai" ->
            /\ transcript = ""
            /\ IF ok THEN Advance(s, r, "tts") /\ called' = <<>> /\ UNCHANGED clearSeen
                     ELSE Finish(s, r, FALSE, CatchEvents(s, r.trigger))
       [] r.stage = "tts" ->
            /\ transcript = ""
            /\ IF ok THEN Finish(s, r, TRUE, ResponseEvents(s, r.trigger, TtsAudio))
               ELSE IF TtsSwallows
                 THEN Finish(s, r, TRUE, ResponseEvents(s, r.trigger, <<>>))
                 ELSE Finish(s, r, FALSE, CatchEvents(s, r.trigger))
  /\ UNCHANGED <<variant, sock, phase, transcriber, image, img, imageChunks, closeAttempts,
                 received>>

----------------------------------------------------------------------------
\* Teardown

InflightAfterDisconnect_Cancelled(s) == EmptyBag

\* The disconnect handler does not reach the suspended request handlers.
InflightAfterDisconnect(s) == inflight[s]

\* The client disconnects; socket.on("disconnect") runs if it is registered.
Disconnect(s) ==
  /\ sock[s] = "open"
  /\ inflight' = [inflight EXCEPT ![s] = InflightAfterDisconnect(s)]
  /\ sock' = [sock EXCEPT ![s] = "closed"]
  /\ written' = <<>>
  /\ event' = Event(s, "disconnect")
  /\ emitted' = <<>>
  /\ called' = <<>>
  /\ IF phase[s] # "ready"
       THEN UNCHANGED <<phase, image, imageChunks, closeAttempts>>
       ELSE IF variant = "full" \/ (variant = "session" /\ transcriber[s] = "null")
         THEN /\ phase' = [phase EXCEPT ![s] = "done"]
              /\ image' = [image EXCEPT ![s] = Null]
              /\ imageChunks' = [imageChunks EXCEPT ![s] = <<>>]
              /\ UNCHANGED closeAttempts
         ELSE \* await transcriber.close()
              /\ phase' = [phase EXCEPT ![s] = "closing"]
              /\ closeAttempts' = [closeAttempts EXCEPT ![s] = @ + 1]
              /\ UNCHANGED <<image, imageChunks>>
  /\ UNCHANGED <<variant, transcriber, img, isProcessing, clearSeen, received>>

\* await transcriber.close() settles (a rejection is only logged); part_002 then
\* clears the session data.
DisconnectDone(s) ==
  /\ phase[s] = "closing"
  /\ phase' = [phase EXCEPT ![s] = "done"]
  /\ transcriber' = [transcriber EXCEPT ![s] = "closed"]
  /\ written' = <<>>
  /\ event' = Event(s, "disconnect_done")
  /\ emitted' = <<>>
  /\ called' = <<>>
  /\ IF variant = "session"
       THEN /\ image' = [image EXCEPT ![s] = Null]
            /\ imageChunks' = [imageChunks EXCEPT ![s] = <<>>]
       ELSE UNCHANGED <<image, imageChunks>>
  /\ UNCHANGED <<variant, sock, img, isProcessing, inflight, closeAttempts, clearSeen, received>>

----------------------------------------------------------------------------
Next ==
  \/ \E s \in Sessions, created \in BOOLEAN : Connect(s, created)
  \/ \E s \in Sessions, ok \in BOOLEAN : ConnectDone(s, ok)
  \/ \E s \in Sessions, name \in LateListeners : Unheard(s, name)
  \/ \E s \in Sessions : \E data \in ChunkEvents(s) : ImageChunk(s, data)
  \/ \E s \in Sessions : ClearImage(s)
  \/ \E s \in Sessions, m \in Texts : TextMessage(s, m)
  \/ \E s \in Sessions, t \in Transcripts \cup {""} : Turn(s, t)
  \/ \E s \in Sessions : AudioFull(s)
  \/ \E s \in Sessions : SttError(s)
  \/ \E s \in Sessions : AudioChunk(s, AudioPayload)
  \/ \E s \in Sessions : AudioStart(s)
  \/ \E s \in Sessions, r \in Requests, ok \in BOOLEAN, t \in Texts \cup {""} :
       Settle(s, r, ok, t)
  \/ \E s \in Sessions : Disconnect(s)
  \/ \E s \in Sessions : DisconnectDone(s)

Spec == Init /\ [][Next]_vars

\* An awaited upstream call settles: the promise resolves or rejects.
SettleRequest(s, r) == \E ok \in BOOLEAN, t \in Texts \cup {""} : Settle(s, r, ok, t)

\* Every upstream call eventually resolves or rejects: no suspended handler
\* waits for ever.
\* The server without the image events, which no request handler waits for.
LiveNext ==
  \/ \E s \in Sessions, created \in BOOLEAN : Connect(s, created)
  \/ \E s \in Sessions, ok \in BOOLEAN : ConnectDone(s, ok)
  \/ \E s \in Sessions, m \in Texts : TextMessage(s, m)
  \/ \E s \in Sessions, t \in Transcripts \cup {""} : Turn(s, t)
  \/ \E s \in Sessions : AudioFull(s)
  \/ \E s \in Sessions : SttError(s)
  \/ \E s \in Sessions : AudioChunk(s, AudioPayload)
  \/ \E s \in Sessions : AudioStart(s)
  \/ \E s \in Sessions, r \in Requests : SettleRequest(s, r)
  \/ \E s \in Sessions : Disconnect(s)
  \/ \E s \in Sessions : DisconnectDone(s)

SpecLive ==
  Init /\ [][LiveNext]_vars /\ \A s \in Sessions, r \in Requests : WF_vars(SettleRequest(s, r))

----------------------------------------------------------------------------
\* Vocabulary of the properties

InFlight(s) == BagCardinality(inflight[s])

\* The step that led to the current state ended a request (its handler ran its cleanup).
Completed(e) ==
  e.name \in {"fail_upload", "fail_create", "fail_wait", "fail_ai", "fail_tts", "ok_tts"}

IsBusyError(e) == e.ev = "error" /\ e.type = "busy"
Emits(P(_)) == \E k \in 1..Len(emitted) : P(emitted[k])

----------------------------------------------------------------------------
\* C1: in every session at most one request handler is between its busy check
\* and its cleanup at any time (stated for the revisions that have a busy check).
AtMostOneInFlight == \A s \in Sessions : HasSession => InFlight(s) <= 1

\* C2: a text_message or audio_full event that arrives while the session is
\* Processing emits exactly one busy error and changes neither the busy flag,
\* the image, the pending chunks nor the set of requests, and calls no upstream.
BusyRejectsOnly ==
  [][\A s \in Sessions :
       (isProcessing[s] /\ event'.s = s /\ event'.name \in {"text_message", "audio_full"})
         => /\ emitted' = <<ErrorEv(s, "busy")>>
            /\ called' = <<>>
            /\ UNCHANGED <<isProcessing, image, img, imageChunks, inflight>>]_vars

BusyRejected ==
  /\ event.name = "text_message"
  /\ isProcessing[event.s]
  /\ InFlight(event.s) > 0
  /\ emitted = <<ErrorEv(event.s, "busy")>>

\* C3: when a request completes, by success or by a failed transcription, AI or
\* TTS call, the busy flag of its session is false, and a text_message or
\* audio_full handled right after it is not rejected as busy.
IdleAfterCompletion ==
  [][/\ Completed(event') => ~isProcessing'[event'.s]
     /\ (Completed(event) /\ event'.s = event.s
           /\ event'.name \in {"text_message", "audio_full"})
          => ~Emits(IsBusyError)']_vars

FailedThenIdle ==
  /\ HasSession
  /\ event.name \in {"fail_ai", "fail_tts", "fail_wait"}
  /\ ~isProcessing[event.s]
  /\ Emits(LAMBDA e : e.ev = "error")

\* C4: an event handled on one session changes neither the image, the pending
\* chunks nor the busy flag that the dispatcher of another session reads.
NoCrossSessionEffect ==
  [][\A s, t \in Sessions :
       (event'.s = s /\ t # s /\ sock[s] = "open" /\ sock[t] = "open")
         => /\ SessionImage(t)' = SessionImage(t)
            /\ imageChunks'[t] = imageChunks[t]
            /\ isProcessing'[t] = isProcessing[t]]_vars

\* C5: the terminal chunk of an upload leaves the session image equal to the
\* payloads of that upload, joined in arrival order, and nothing else.
ImageIsConcatenation ==
  [][\A s \in Sessions :
       (event'.s = s /\ event'.name = "image_last")
         => SessionImage(s)' = Buf(received[s] \o event'.chunk)]_vars

ChunkedUploadDone ==
  /\ event.name = "image_last"
  /\ Len(SessionImage(event.s).bytes) > Len(event.chunk)

\* C6 as claimed: every terminal chunk leaves the pending sequence empty, and
\* nothing but a terminal chunk empties it.
PendingEmptiedOnlyByFold ==
  [][\A s \in Sessions :
       /\ (event'.s = s /\ event'.name = "image_last") => imageChunks'[s] = <<>>
       /\ (imageChunks[s] # <<>> /\ imageChunks'[s] = <<>>)
            => (event'.s = s /\ event'.name = "image_last")]_vars

\* C6 as amended: every well-formed terminal chunk leaves the pending sequence
\* empty, and besides it only the disconnect handler of the sessionData
\* revisions, which discards the pending chunks, empties it.
PendingEmptiedByFoldOrDisconnect ==
  [][\A s \in Sessions :
       /\ (event'.s = s /\ event'.name = "image_last") => imageChunks'[s] = <<>>
       /\ (imageChunks[s] # <<>> /\ imageChunks'[s] = <<>>)
            => /\ event'.s = s
               /\ \/ event'.name = "image_last"
                  \/ HasSession /\ event'.name \in {"disconnect", "disconnect_done"}]_vars

PendingDiscardedByDisconnect ==
  /\ event.name \in {"disconnect", "disconnect_done"}
  /\ received[event.s] # <<>>
  /\ imageChunks[event.s] = <<>>

\* C7: the first dispatcher call of a session after a clear_image, with no
\* upload completed in between, receives no image.
ClearedImageNotDispatched ==
  [][\A k \in 1..Len(called') :
       clearSeen[called'[k].s] => called'[k].img = Null]_vars

\* C8: once the client has disconnected, close() has been called exactly once
\* on the streaming transcription handle of its connection.
CloseAttemptedOnce ==
  \A s \in Sessions : (HasTranscriber /\ sock[s] = "closed") => closeAttempts[s] = 1

\* C9: a turn with a transcript that arrives while the session is Processing is
\* answered with a busy error and dispatches nothing.
TurnWhileBusyRejected ==
  [][\A s \in Sessions :
       (isProcessing[s] /\ event'.s = s /\ event'.name = "turn")
         => /\ emitted' = <<ErrorEv(s, "busy")>>
            /\ called' = <<>>]_vars

\* C10: a request whose AI or TTS call fails emits exactly one error event, of
\* the type of its trigger, and no response event.
FailureReportedOnce ==
  event.name \in {"fail_ai", "fail_tts"}
    => emitted = <<ErrorEv(event.s, ErrorType(event.trigger))>>

\* C11: a request that succeeds emits exactly one event, and that event carries
\* the response text and the response audio together.
CarriesTextAndAudio(e) == e.ev = "ai_response" /\ e.size = Len(TtsAudio)

OneCombinedResponse ==
  event.name = "ok_tts"
    => (Len(emitted) = 1 /\ emitted[1].to = event.s /\ CarriesTextAndAudio(emitted[1]))

\* C12: a turn with a non-empty transcript that reaches an idle session makes
\* exactly one dispatcher call, with that transcript and the image the session
\* holds; a turn with an empty transcript makes no call and leaves the busy flag
\* and the requests in flight as they were.
TurnDispatchesOnce ==
  [][\A s \in Sessions :
       /\ (event'.s = s /\ event'.name = "turn" /\ ~isProcessing[s])
            => /\ called' = <<Call(s, SessionImage(s), event'.text)>>
               /\ InFlight(s)' = InFlight(s) + 1
               /\ HasSession => isProcessing'[s]
       /\ (event'.s = s /\ event'.name = "turn_empty")
            => /\ called' = <<>>
               /\ isProcessing' = isProcessing
               /\ inflight' = inflight]_vars

TurnDispatched ==
  /\ event.name = "turn"
  /\ event.text = "yo"
  /\ called = <<Call(event.s, Buf(<<1, 2>>), "yo")>>

\* C13: every audio_chunk a client sends on a connection whose upstream session
\* was created and has not failed is written once, unchanged, to the upstream
\* stream of that connection, and to no other stream.
AudioForwarded ==
  [][\A s \in Sessions :
       (event'.s = s /\ event'.name = "audio_chunk" /\ transcriber[s] \in {"created", "connected"})
         => written' = <<Write(s, event'.chunk)>>]_vars

\* C14: a terminal image_chunk is answered by exactly one image_received event
\* whose size is the number of bytes received since the last terminal chunk and
\* the length of the stored image; a non-terminal chunk is answered by nothing.
TerminalChunkAcknowledged ==
  [][\A s \in Sessions :
       /\ (event'.s = s /\ event'.name = "image_last")
            => /\ emitted' = <<Ev(s, "image_received", "", Len(received[s] \o event'.chunk))>>
               /\ emitted'[1].size = Len(SessionImage(s)'.bytes)
       /\ (event'.s = s /\ event'.name = "image_chunk") => emitted' = <<>>]_vars

\* C15: an error event of the upstream streaming session leaves the client
\* connection open and the session context as it was, so the session goes on
\* handling image_chunk, text_message, clear_image and audio_chunk as before.
SttErrorKeepsSession ==
  [][\A s \in Sessions :
       (event'.s = s /\ event'.name = "stt_error")
         => /\ sock' = sock
            /\ phase' = phase
            /\ transcriber' = transcriber
            /\ image' = image
            /\ img' = img
            /\ imageChunks' = imageChunks
            /\ isProcessing' = isProcessing
            /\ inflight' = inflight
            /\ Listening(s)' = Listening(s)]_vars

SttErrorWithContext ==
  /\ event.name = "stt_error"
  /\ Listening(event.s)
  /\ SessionImage(event.s) # Null
  /\ imageChunks[event.s] # <<>>
  /\ InFlight(event.s) > 0

\* C16: when every upstream call settles, a session of the sessionData revisions
\* that is busy becomes idle again, and every request in flight ends with
\* exactly one event, a response or an error.
IsOutcome(e) == e.ev \in {"ai_response", "error"}

RequestsEnd ==
  /\ [](HasSession /\ Completed(event) => Len(emitted) = 1 /\ IsOutcome(emitted[1]))
  /\ \A s \in Sessions :
       /\ (HasSession /\ isProcessing[s]) ~> ~isProcessing[s]
       /\ \A g \in {"text", "turn", "audio"} :
            (HasSession /\ \E r \in BagToSet(inflight[s]) : r.trigger = g)
              ~> (Completed(event) /\ event.s = s /\ event.trigger = g /\ Len(emitted) = 1)

RequestEnded ==
  /\ HasSession
  /\ Completed(event)
  /\ sock[event.s] = "open"
  /\ ~isProcessing[event.s]
  /\ emitted # <<>>

\* C17: when the upstream streaming session cannot be opened (the handle cannot
\* be created or its connect is rejected), the client gets exactly one error
\* event of type initialization and the socket handlers are registered all the
\* same.
OpenFailed(s) ==
  /\ HasTranscriber
  /\ event.s = s
  /\ \/ event.name = "connect_done" /\ transcriber[s] = "failed"
     \/ event.name = "connection" /\ transcriber[s] = "null"

ConnectFailureServed ==
  \A s \in Sessions :
    OpenFailed(s) => (emitted = <<ErrorEv(s, "initialization")>> /\ phase[s] = "ready")

\* C18: a disconnect cancels no request: the requests of a closed connection
\* stay in flight until their own handler ends, and a handler of the sessionData
\* revisions that ends after the disconnect still emits its one event and resets
\* the busy flag.
DisconnectCancelsNothing ==
  [][\A s \in Sessions :
       /\ (event'.s = s /\ event'.name \in {"disconnect", "disconnect_done"})
            => inflight'[s] = inflight[s]
       /\ (sock'[s] = "closed" /\ inflight'[s] # inflight[s])
            => /\ event'.s = s
               /\ InFlight(s)' < InFlight(s) => Completed(event')
               /\ (HasSession /\ Completed(event'))
                    => (Len(emitted') = 1 /\ emitted'[1].to = s /\ ~isProcessing'[s])]_vars

EndedAfterTeardown ==
  /\ HasSession
  /\ Completed(event)
  /\ event.name = "ok_tts"
  /\ phase[event.s] = "done"
  /\ image[event.s] = Null
  /\ emitted = <<Ev(event.s, "ai_response", "", Len(TtsAudio))>>
  /\ ~isProcessing[event.s]

\* C19: an image_chunk without a usable chunk field is answered by exactly one
\* error event of type image_upload and leaves the image, the pending chunks and
\* the busy flag as they were.
MalformedChunkReported ==
  [][\A s \in Sessions :
       (event'.s = s /\ event'.name = "image_bad")
         => /\ emitted' = <<ErrorEv(s, "image_upload")>>
            /\ image' = image
            /\ img' = img
            /\ imageChunks' = imageChunks
            /\ isProcessing' = isProcessing]_vars

\* C20: in the sessionData revisions a busy session still stores and clears its
\* image; text_message and turn hand the dispatcher the image held when they are
\* accepted, audio_full makes no call when it is accepted and hands over the
\* image held when its transcription has completed.
Transcribing(s) ==
  \E r \in BagToSet(inflight[s]) : r.trigger = "audio" /\ r.stage \in {"upload", "create", "wait"}

ImageReadAtDispatch ==
  [][\A s \in Sessions :
       (HasSession /\ event'.s = s)
         => /\ event'.name = "clear_image" => image'[s] = Null
            /\ event'.name = "image_last" => image'[s] = Buf(received[s] \o event'.chunk)
            /\ (event'.name \in {"text_message", "turn"} /\ InFlight(s)' > InFlight(s))
                 => called' = <<Call(s, image[s], event'.text)>>
            /\ event'.name = "audio_full" => called' = <<>>
            /\ event'.name = "ok_wait" => called' = <<Call(s, image[s], event'.text)>>
            /\ called' # <<>> => event'.name \in {"text_message", "turn", "ok_wait"}]_vars

ImageChangedWhileTranscribing ==
  /\ variant = "full"
  /\ event.name \in {"image_last", "clear_image"}
  /\ isProcessing[event.s]
  /\ Transcribing(event.s)

\* C21: while the connect attempt of a connection is pending no socket listener
\* of that connection runs: a client event changes nothing, is answered by
\* nothing and reaches neither the dispatcher nor the upstream stream; and the
\* step that ends the attempt replays none of them.
FromClient(e) ==
  e.name \in {"audio_chunk", "disconnect", "image_chunk", "image_last", "image_bad",
              "text_message", "clear_image", "audio_start", "audio_full"}
                \cup {"unheard_" \o n : n \in LateListeners}

ConnectPendingDropsEvents ==
  [][\A s \in Sessions :
       /\ (phase[s] = "connecting" /\ event'.s = s /\ FromClient(event'))
            => /\ phase'[s] = "connecting"
               /\ emitted' = <<>>
               /\ called' = <<>>
               /\ written' = <<>>
               /\ UNCHANGED <<transcriber, image, img, imageChunks, isProcessing, inflight,
                              closeAttempts>>
       /\ (event'.s = s /\ event'.name = "connect_done")
            => /\ called' = <<>>
               /\ written' = <<>>
               /\ \A k \in 1..Len(emitted') : emitted'[k].ev \in {"stt_ready", "error"}
               /\ UNCHANGED <<image, img, imageChunks, isProcessing, inflight>>]_vars

TextMessageUnheard ==
  /\ event.name = "unheard_text_message"
  /\ sock[event.s] = "open"
  /\ phase[event.s] = "connecting"
  /\ inflight[event.s] = EmptyBag
  /\ called = <<>>
  /\ emitted = <<>>

\* C22: a non-terminal image_chunk appends its bytes to the pending sequence and
\* does nothing else: the image, the busy flag and the requests stay as they
\* were and nothing is emitted; a dispatcher call made while chunks are pending
\* gets the image as it stands, without them.
NonTerminalChunkOnlyAppends ==
  [][\A s \in Sessions :
       /\ (event'.s = s /\ event'.name = "image_chunk")
            => /\ imageChunks' = [imageChunks EXCEPT ![s] = Append(@, event'.chunk)]
               /\ SessionImage(s)' = SessionImage(s)
               /\ emitted' = <<>>
               /\ called' = <<>>
               /\ UNCHANGED <<image, img, isProcessing, inflight>>
       /\ (imageChunks[s] # <<>> /\ called' # <<>> /\ called'[1].s = s)
            => called'[1].img = SessionImage(s)]_vars

ChunkPendingBesideImage ==
  /\ event.name = "image_chunk"
  /\ imageChunks[event.s] = <<FirstPayload>>
  /\ SessionImage(event.s) = Buf(FirstPayload \o LastPayload(event.s))

\* C23: in the sessionData revisions clear_image empties the image of its session,
\* emits image_cleared and does nothing else: pending chunks, busy flag and
\* requests stay, and the next terminal chunk folds the chunks that were pending
\* at the clear_image into the new image.
ClearImageOnlyClears ==
  [][\A s \in Sessions :
       (HasSession /\ event'.s = s)
         => /\ event'.name = "clear_image"
                 => /\ image' = [image EXCEPT ![s] = Null]
                    /\ emitted' = <<Ev(s, "image_cleared", "", 0)>>
                    /\ called' = <<>>
                    /\ UNCHANGED <<imageChunks, isProcessing, inflight, received>>
            /\ event'.name = "image_last"
                 => image'[s] = Buf(BufferConcat(imageChunks[s]) \o event'.chunk)]_vars

ClearedWithChunksPending ==
  /\ HasSession
  /\ event.name = "clear_image"
  /\ image[event.s] = Null
  /\ imageChunks[event.s] = <<FirstPayload>>
  /\ isProcessing[event.s]

\* C24: an audio_full request calls the AI step exactly when its transcription
\* has completed, with the transcript as text even if it is empty, and its
\* session is busy from acceptance until its handler ends; a streaming turn with
\* an empty transcript calls nothing and starts no request.
AudioRequest(s) == \E r \in BagToSet(inflight[s]) : r.trigger = "audio"

AudioFullAlwaysDispatches ==
  [][\A s \in Sessions :
       /\ (event'.s = s /\ event'.name = "ok_wait")
            => /\ Len(called') = 1
               /\ called'[1].s = s
               /\ called'[1].text = event'.text
               /\ \E r \in BagToSet(inflight'[s]) : r = Req("audio", "ai")
       /\ (event'.s = s /\ event'.trigger = "audio" /\ event'.name # "ok_wait")
            => called' = <<>>
       /\ AudioRequest(s)' => isProcessing'[s]
       /\ (event'.s = s /\ event'.name = "turn_empty")
            => (called' = <<>> /\ inflight' = inflight)]_vars

EmptyTranscriptDispatched ==
  /\ variant = "full"
  /\ event.name = "ok_wait"
  /\ event.text = ""
  /\ called = <<Call(event.s, image[event.s], "")>>
  /\ isProcessing[event.s]
====
